---- MODULE Spec2Model ----
(***************************************************************************)
(* Content versioning and progress tracking engine of locus-guide-back     *)
(* (src/app/routes/service.py, class RouteService), modelled over the      *)
(* committed contents of the relational store.                             *)
(*                                                                         *)
(* Names follow service.py: Tour, Route (a tour's version), Checkpoint,    *)
(* UserActiveTour (session), VisitedPoint (per-checkpoint progress).       *)
(* The bookkeeping columns created_at / updated_at are not modelled: no    *)
(* handler reads them.                                                     *)
(***************************************************************************)
EXTENDS Integers, Sequences, FiniteSets, TLC

\* ---------------------------------------------------------------- bounds
MaxRoutes == 3
MaxTime == 1

\* ------------------------------------------------------------ value sets
NULL == -1
NoType == "null"

Users == {"u1"}
TourIds == {"t1", "t2"}
Procs == {"p1", "p2"}

TourStatus == {"draft", "published", "coming_soon", "archived"}
RouteStatus == {"draft", "review", "published", "superseded"}
AudioListenStatus == {"none", "started", "completed"}
CompletionType == {"manual", "automatic"}

\* the status values create_tour is called with
TourStatusInputs == {"draft", "coming_soon"}

\* geojson payloads: the is_visible property of each Point feature
FeatureInputs == {<<TRUE>>, <<TRUE, FALSE>>}

VARIABLES
    tours,           \* tour id -> row of table tours
    routes,          \* sequence of rows of table routes, id = index
    checkpoints,     \* sequence of rows of table checkpoints, id = index
    sessions,        \* sequence of rows of user_active_tours, id = index
    visited_points,  \* <<user, checkpoint id>> -> row of visited_points
    now,             \* the wall clock read by datetime.now()
    result,          \* outcome of the last request served one at a time
    procs            \* per concurrent request: position and loaded rows

vars == <<tours, routes, checkpoints, sessions, visited_points, now, result, procs>>
db == <<tours, routes, checkpoints, sessions, visited_points>>

\* ------------------------------------------------------ request outcomes
\* status: "ok", "NotFound" (service returned None, router raises 404) or
\* "IntegrityError" (a constraint rejected the flush; nothing is caught).
\* line: the service.py line of the return statement taken.
NoResult == [op |-> "none", user |-> "null", tour |-> "null", arg |-> NULL,
             status |-> "none", id |-> NULL, line |-> 0]

Outcome(op, user, tour, arg, status, id, line) ==
    [op |-> op, user |-> user, tour |-> tour, arg |-> arg,
     status |-> status, id |-> id, line |-> line]

\* the columns a request has loaded into its ORM session so far
\* a VisitedPoint query that found no row
NoRow == [visited |-> FALSE, visited_at |-> NULL, audio_status |-> "absent",
          audio_started_at |-> NULL, audio_completed_at |-> NULL]

NoLoad == [tour_status |-> "none", tour_pub |-> NULL,
           route_status |-> "none", route_published_at |-> NULL,
           old_id |-> NULL, old_status |-> "none",
           max_version |-> NULL, existing |-> NULL,
           new_status |-> "none", vp |-> NoRow,
           session |-> NULL, checkpoints_total |-> NULL,
           audio_completed |-> NULL]

Idle == [pc |-> "idle", op |-> "none", user |-> "null", tour |-> "null",
         arg |-> NULL, feat |-> <<>>, l |-> NoLoad,
         status |-> "none", id |-> NULL, line |-> 0]

\* ----------------------------------------------------------------- reads
RouteIds == 1..Len(routes)
CheckpointIds == 1..Len(checkpoints)
SessionIds == 1..Len(sessions)

\* db.query(Route).filter(Route.tour_id == tour_id)
RoutesOf(tid) == {r \in RouteIds : routes[r].tour_id = tid}

\* db.query(Checkpoint).filter(Checkpoint.route_id == route_id)
CheckpointsOf(rid) == {c \in CheckpointIds : checkpoints[c].route_id = rid}

\* db.query(UserActiveTour).filter(user_id == .., tour_id == ..)
SessionsOf(u, tid) ==
    {s \in SessionIds : sessions[s].user_id = u /\ sessions[s].tour_id = tid}

\* faulty variant: the completed_at filter is missing
ActiveSessionsOf_Any(u, tid) ==
    {s \in SessionIds : sessions[s].user_id = u /\ sessions[s].tour_id = tid}

\* ... with the further filter completed_at == None
ActiveSessionsOf(u, tid) ==
    {s \in SessionsOf(u, tid) : sessions[s].completed_at = NULL}

\* .first() of a query: some matching row, NULL when there is none
First(S) == IF S = {} THEN NULL ELSE CHOOSE x \in S : \A y \in S : x <= y

SetMax(S) == CHOOSE x \in S : \A y \in S : y <= x

\* func.max(Route.version_no) ... .scalar() or 0
MaxVersionNo(tid) ==
    IF RoutesOf(tid) = {} THEN 0
    ELSE SetMax({routes[r].version_no : r \in RoutesOf(tid)})

\* ------------------------------------------------------------------ Init
Init ==
    /\ tours = <<>>
    /\ routes = <<>>
    /\ checkpoints = <<>>
    /\ sessions = <<>>
    /\ visited_points = <<>>
    /\ now = 0
    /\ result = NoResult
    /\ procs = [p \in Procs |-> Idle]

\* time passes between and during requests
Tick ==
    /\ now < MaxTime
    /\ now' = now + 1
    /\ UNCHANGED <<db, result, procs>>

\* ------------------------------------------------------------ create_tour
CreateTour(tid, status) ==
    /\ tid \notin DOMAIN tours
    /\ tours' = tours @@ (tid :> [status |-> status, published_route_id |-> NULL])
    /\ result' = Outcome("create_tour", "null", tid, NULL, "ok", NULL, 661)
    /\ UNCHANGED <<routes, checkpoints, sessions, visited_points, now, procs>>

\* ------------------------------------------------------------ update_tour
\* lines 663-676 with a status given; the slug is not modelled
UpdateTour(tid, status) ==
    /\ UNCHANGED <<now, procs>>
    /\ IF tid \notin DOMAIN tours
       THEN /\ result' = Outcome("update_tour", "null", tid, NULL, "NotFound", NULL, 667)
            /\ UNCHANGED db
       ELSE /\ tours' = [tours EXCEPT ![tid].status = status]
            /\ result' = Outcome("update_tour", "null", tid, NULL, "ok", NULL, 676)
            /\ UNCHANGED <<routes, checkpoints, sessions, visited_points>>

\* ----------------------------------------------------------- create_route
\* faulty variant: the table has no unique constraint
UniqueVersionOk_Absent(tid, version_no) == TRUE

\* uq_route_version: UniqueConstraint(tour_id, version_no)
UniqueVersionOk(tid, version_no) ==
    \A r \in RoutesOf(tid) : routes[r].version_no # version_no

\* the Checkpoint rows built from the Point features, seq_no counting from 0
NewCheckpoints(rid, feat) ==
    [i \in 1..Len(feat) |->
        [route_id |-> rid, seq_no |-> i - 1, is_visible |-> feat[i]]]

\* flush + commit of the new Route and its Checkpoints, version_no computed
\* from the max that was read
CreateRouteWrite(tid, max_version, feat) ==
    LET version_no == max_version + 1
        rid == Len(routes) + 1
    IN  /\ routes' = Append(routes,
              [tour_id |-> tid, version_no |-> version_no,
               status |-> "draft", published_at |-> NULL])
        /\ checkpoints' = checkpoints \o NewCheckpoints(rid, feat)
        /\ UNCHANGED <<tours, sessions, visited_points>>

CreateRoute(tid, feat) ==
    /\ Len(routes) < MaxRoutes
    /\ UNCHANGED <<now, procs>>
    /\ IF tid \notin DOMAIN tours
       THEN /\ result' = Outcome("create_route", "null", tid, NULL, "NotFound", NULL, 761)
            /\ UNCHANGED db
       ELSE IF UniqueVersionOk(tid, MaxVersionNo(tid) + 1)
       THEN /\ CreateRouteWrite(tid, MaxVersionNo(tid), feat)
            /\ result' = Outcome("create_route", "null", tid, NULL, "ok",
                                 Len(routes) + 1, 819)
       ELSE /\ result' = Outcome("create_route", "null", tid, NULL,
                                 "IntegrityError", NULL, 788)
            /\ UNCHANGED db

\* ---------------------------------------------------------- publish_route
\* the rows publish_route loads (lines 894-906); a Route already in the
\* identity map (old_route is route) is not loaded a second time
LoadTour(l, tid) ==
    [l EXCEPT !.tour_status = tours[tid].status,
              !.tour_pub = tours[tid].published_route_id]

LoadRoute(l, rid) ==
    [l EXCEPT !.route_status = routes[rid].status,
              !.route_published_at = routes[rid].published_at]

\* faulty variant: the previously published route is never looked up
LoadOldRoute_Skipped(l, rid) == l

LoadOldRoute(l, rid) ==
    IF l.tour_pub = NULL THEN l
    ELSE IF l.tour_pub = rid
    THEN [l EXCEPT !.old_id = rid, !.old_status = l.route_status]
    ELSE [l EXCEPT !.old_id = l.tour_pub,
                   !.old_status = routes[l.tour_pub].status]

\* faulty variant: the target route is put up for review
PublishedStatus_Review(l) == "review"

\* lines 911-914: the status and published_at the target Route ends with
PublishedStatus(l) == "published"
PublishedAt(l) == now

\* faulty variant: the previous route is sent back to review
OldRouteStatus_Review(l) == "review"

\* lines 907-909
OldRouteStatus(l) == "superseded"

\* lines 908-922: the flush writes, by primary key, each column whose value
\* differs from the loaded one, and commits
PublishWrite(tid, rid, l) ==
    /\ routes' = [r \in RouteIds |->
          IF r = rid
          THEN [routes[r] EXCEPT
                  !.status = IF PublishedStatus(l) # l.route_status
                             THEN PublishedStatus(l) ELSE @,
                  !.published_at = IF PublishedAt(l) # l.route_published_at
                                   THEN PublishedAt(l) ELSE @]
          ELSE IF r = l.old_id /\ OldRouteStatus(l) # l.old_status
          THEN [routes[r] EXCEPT !.status = OldRouteStatus(l)]
          ELSE routes[r]]
    /\ tours' = [tours EXCEPT
          ![tid].published_route_id = IF l.tour_pub # rid THEN rid ELSE @,
          ![tid].status = IF l.tour_status # "published" THEN "published" ELSE @]
    /\ UNCHANGED <<checkpoints, sessions, visited_points>>

\* faulty variant: the route's tour is not compared with the request's
RouteMissing_AnyTour(tid, rid) == rid \notin RouteIds

\* lines 898-899: no Route has the id, or it belongs to another tour
RouteMissing(tid, rid) == rid \notin RouteIds \/ routes[rid].tour_id # tid

PublishRoute(tid, rid) ==
    /\ UNCHANGED <<now, procs>>
    /\ IF tid \notin DOMAIN tours
       THEN /\ result' = Outcome("publish", "null", tid, rid, "NotFound", NULL, 896)
            /\ UNCHANGED db
       ELSE IF RouteMissing(tid, rid)
       THEN /\ result' = Outcome("publish", "null", tid, rid, "NotFound", NULL, 900)
            /\ UNCHANGED db
       ELSE /\ PublishWrite(tid, rid,
                   LoadOldRoute(LoadRoute(LoadTour(NoLoad, tid), rid), rid))
            /\ result' = Outcome("publish", "null", tid, rid, "ok", NULL, 924)

\* ------------------------------------------------ _calculate_user_progress
\* round(x, 1) of the quotient num / den * 100, in tenths of a percent:
\* to the nearest tenth, a tie going to the even one
RoundTenths(num, den) ==
    LET q == (1000 * num) \div den
        r == (1000 * num) % den
    IN  IF 2 * r < den THEN q
        ELSE IF 2 * r > den THEN q + 1
        ELSE IF q % 2 = 0 THEN q ELSE q + 1

\* faulty variant: a route without visible checkpoints counts as complete
ProgressPercent_EmptyComplete(audio_completed, total) ==
    IF total > 0 THEN RoundTenths(audio_completed, total) ELSE 1000

\* lines 54 and 60: progress_percent, in tenths of a percent
ProgressPercent(audio_completed, total) ==
    IF total > 0 THEN RoundTenths(audio_completed, total) ELSE 0

\* total counts the visible checkpoints of the route; the two joins count
\* the user's VisitedPoint rows on any checkpoint of the route
CalculateUserProgress(vp, u, rid) ==
    LET rows == {c \in CheckpointsOf(rid) : <<u, c>> \in DOMAIN vp}
        total == Cardinality({c \in CheckpointsOf(rid) : checkpoints[c].is_visible})
        audio_completed ==
            Cardinality({c \in rows : vp[<<u, c>>].audio_status = "completed"})
    IN  [checkpoints_total |-> total,
         checkpoints_visited |->
            Cardinality({c \in rows : vp[<<u, c>>].visited}),
         audio_completed |-> audio_completed,
         progress_percent |-> ProgressPercent(audio_completed, total)]

\* line 79
CompletionCondition(progress) ==
    /\ progress.audio_completed >= progress.checkpoints_total
    /\ progress.checkpoints_total > 0

\* -------------------------------------------- _check_automatic_completion
\* faulty variant: a session whose condition does not hold is reopened
CheckAutomaticCompletion_Reopen(vp, u, tid) ==
    LET s == First(SessionsOf(u, tid))
    IN  IF s = NULL THEN sessions
        ELSE IF CompletionCondition(
                    CalculateUserProgress(vp, u, sessions[s].locked_route_id))
        THEN [sessions EXCEPT ![s].completed_at = now,
                              ![s].completion_type = "automatic"]
        ELSE [sessions EXCEPT ![s].completed_at = NULL,
                              ![s].completion_type = NoType]

\* the sessions table after the check ran against the committed rows vp
CheckAutomaticCompletion(vp, u, tid) ==
    LET s == First(ActiveSessionsOf(u, tid))
    IN  IF s = NULL THEN sessions
        ELSE IF CompletionCondition(
                    CalculateUserProgress(vp, u, sessions[s].locked_route_id))
        THEN [sessions EXCEPT ![s].completed_at = now,
                              ![s].completion_type = "automatic"]
        ELSE sessions

\* lines 427-431 / 471-475: the tour that owns the checkpoint's route
TourOfCheckpoint(cid) == routes[checkpoints[cid].route_id].tour_id

\* ------------------------------------------------ mark_checkpoint_visited
\* faulty variant: every call stamps visited_at again
MarkVisitedRow_Restamp(vp, u, cid) ==
    IF <<u, cid>> \in DOMAIN vp
    THEN [vp EXCEPT ![<<u, cid>>].visited = TRUE,
                    ![<<u, cid>>].visited_at = now]
    ELSE vp @@ (<<u, cid>> :>
            [visited |-> TRUE, visited_at |-> now, audio_status |-> "none",
             audio_started_at |-> NULL, audio_completed_at |-> NULL])

\* lines 408-423
MarkVisitedRow(vp, u, cid) ==
    IF <<u, cid>> \in DOMAIN vp
    THEN IF ~vp[<<u, cid>>].visited
         THEN [vp EXCEPT ![<<u, cid>>].visited = TRUE,
                         ![<<u, cid>>].visited_at = now]
         ELSE vp
    ELSE vp @@ (<<u, cid>> :>
            [visited |-> TRUE, visited_at |-> now, audio_status |-> "none",
             audio_started_at |-> NULL, audio_completed_at |-> NULL])

MarkCheckpointVisited(u, cid) ==
    /\ UNCHANGED <<tours, routes, checkpoints, now, procs>>
    /\ IF cid \notin CheckpointIds
       THEN /\ result' = Outcome("mark_visited", u, "null", cid, "NotFound", NULL, 399)
            /\ UNCHANGED <<sessions, visited_points>>
       ELSE /\ visited_points' = MarkVisitedRow(visited_points, u, cid)
            /\ sessions' = CheckAutomaticCompletion(visited_points', u,
                                                    TourOfCheckpoint(cid))
            /\ result' = Outcome("mark_visited", u, TourOfCheckpoint(cid), cid,
                                 "ok", NULL, 433)

\* ---------------------------------------------------- update_audio_status
\* faulty variant: a new row carries no timestamp
UpdateAudioRow_BareInsert(vp, u, cid, new_status) ==
    IF <<u, cid>> \in DOMAIN vp
    THEN [vp EXCEPT
           ![<<u, cid>>].audio_status = new_status,
           ![<<u, cid>>].audio_started_at =
               IF new_status = "started" /\ @ = NULL THEN now ELSE @,
           ![<<u, cid>>].audio_completed_at =
               IF new_status = "completed" /\ @ = NULL THEN now ELSE @]
    ELSE vp @@ (<<u, cid>> :>
            [visited |-> FALSE, visited_at |-> NULL, audio_status |-> new_status,
             audio_started_at |-> NULL, audio_completed_at |-> NULL])

\* faulty variant: the timestamps follow every status change
UpdateAudioRow_Restamp(vp, u, cid, new_status) ==
    IF <<u, cid>> \in DOMAIN vp
    THEN [vp EXCEPT
           ![<<u, cid>>].audio_status = new_status,
           ![<<u, cid>>].audio_started_at =
               IF new_status = "started" THEN now ELSE @,
           ![<<u, cid>>].audio_completed_at =
               IF new_status = "completed" THEN now ELSE @]
    ELSE vp @@ (<<u, cid>> :>
            [visited |-> FALSE, visited_at |-> NULL, audio_status |-> new_status,
             audio_started_at |-> IF new_status = "started" THEN now ELSE NULL,
             audio_completed_at |-> IF new_status = "completed" THEN now ELSE NULL])

\* lines 450-466
UpdateAudioRow(vp, u, cid, new_status) ==
    IF <<u, cid>> \in DOMAIN vp
    THEN [vp EXCEPT
           ![<<u, cid>>].audio_status = new_status,
           ![<<u, cid>>].audio_started_at =
               IF new_status = "started" /\ @ = NULL THEN now ELSE @,
           ![<<u, cid>>].audio_completed_at =
               IF new_status = "completed" /\ @ = NULL THEN now ELSE @]
    ELSE vp @@ (<<u, cid>> :>
            [visited |-> FALSE, visited_at |-> NULL, audio_status |-> new_status,
             audio_started_at |-> IF new_status = "started" THEN now ELSE NULL,
             audio_completed_at |-> IF new_status = "completed" THEN now ELSE NULL])

UpdateAudioStatus(u, cid, new_status) ==
    /\ UNCHANGED <<tours, routes, checkpoints, now, procs>>
    /\ IF cid \notin CheckpointIds
       THEN /\ result' = Outcome("audio_status", u, "null", cid, "NotFound", NULL, 439)
            /\ UNCHANGED <<sessions, visited_points>>
       ELSE /\ visited_points' = UpdateAudioRow(visited_points, u, cid, new_status)
            /\ sessions' = CheckAutomaticCompletion(visited_points', u,
                                                    TourOfCheckpoint(cid))
            /\ result' = Outcome("audio_status", u, TourOfCheckpoint(cid), cid,
                                 "ok", NULL, 477)

\* ------------------------------------------------------ update_checkpoint
\* the request bodies: the keys present in data, of those that are modelled
CheckpointUpdates ==
    {[is_visible |-> TRUE], [is_visible |-> FALSE], [seq_no |-> 1], [seq_no |-> 2]}

\* lines 933-946: the columns named in data are assigned
UpdatedCheckpoint(row, data) ==
    [route_id |-> row.route_id,
     seq_no |-> IF "seq_no" \in DOMAIN data THEN data.seq_no ELSE row.seq_no,
     is_visible |-> IF "is_visible" \in DOMAIN data
                    THEN data.is_visible ELSE row.is_visible]

\* uq_checkpoint_route_version_seq: UniqueConstraint(route_id, seq_no)
UniqueSeqNoOk(cid, row) ==
    \A c \in CheckpointsOf(row.route_id) \ {cid} :
        checkpoints[c].seq_no # row.seq_no

UpdateCheckpoint(cid, data) ==
    /\ UNCHANGED <<tours, routes, sessions, visited_points, now, procs>>
    /\ IF cid \notin CheckpointIds
       THEN /\ result' = Outcome("update_checkpoint", "null", "null", cid,
                                 "NotFound", NULL, 930)
            /\ UNCHANGED checkpoints
       ELSE IF UniqueSeqNoOk(cid, UpdatedCheckpoint(checkpoints[cid], data))
       THEN /\ checkpoints' = [checkpoints EXCEPT
                                 ![cid] = UpdatedCheckpoint(@, data)]
            /\ result' = Outcome("update_checkpoint", "null",
                                 TourOfCheckpoint(cid), cid, "ok", NULL, 958)
       ELSE /\ result' = Outcome("update_checkpoint", "null",
                                 TourOfCheckpoint(cid), cid,
                                 "IntegrityError", NULL, 956)
            /\ UNCHANGED checkpoints

\* ------------------------------------------------------------- start_tour
\* uq_user_active_route: UniqueConstraint(user_id, tour_id)
UniqueSessionOk(u, tid) == SessionsOf(u, tid) = {}

\* faulty variant: the existence check finds nothing
ExistingSession_None(u, tid) == NULL

\* line 564-567
ExistingSession(u, tid) == First(SessionsOf(u, tid))

\* faulty variant: any existing tour can be started
StartableTour_Unpublished(tid) == tid \in DOMAIN tours

\* lines 559-561: the tour exists and has a published route
StartableTour(tid) ==
    tid \in DOMAIN tours /\ tours[tid].published_route_id # NULL

\* faulty variant: the session is locked to the tour's newest route
StartWrite_Newest(u, tid, locked_route_id) ==
    /\ sessions' = Append(sessions,
          [user_id |-> u, tour_id |-> tid,
           locked_route_id |-> SetMax(RoutesOf(tid)),
           started_at |-> now, completed_at |-> NULL, completion_type |-> NoType])
    /\ UNCHANGED <<tours, routes, checkpoints, visited_points>>

\* lines 574-580: INSERT and commit; started_at is the server default now()
StartWrite(u, tid, locked_route_id) ==
    /\ sessions' = Append(sessions,
          [user_id |-> u, tour_id |-> tid, locked_route_id |-> locked_route_id,
           started_at |-> now, completed_at |-> NULL, completion_type |-> NoType])
    /\ UNCHANGED <<tours, routes, checkpoints, visited_points>>

StartTour(u, tid) ==
    /\ UNCHANGED <<now, procs>>
    /\ IF ~StartableTour(tid)
       THEN /\ result' = Outcome("start", u, tid, NULL, "NotFound", NULL, 561)
            /\ UNCHANGED db
       ELSE IF ExistingSession(u, tid) # NULL
       THEN /\ result' = Outcome("start", u, tid, NULL, "ok",
                                 ExistingSession(u, tid), 571)
            /\ UNCHANGED db
       ELSE IF UniqueSessionOk(u, tid)
       THEN /\ StartWrite(u, tid, tours[tid].published_route_id)
            /\ result' = Outcome("start", u, tid, NULL, "ok", Len(sessions) + 1, 583)
       ELSE /\ result' = Outcome("start", u, tid, NULL, "IntegrityError", NULL, 580)
            /\ UNCHANGED db

\* ------------------------------------------------------------ finish_tour
\* faulty variant: the completion type is left unset
FinishWrite_NoType(s) ==
    /\ sessions' = [sessions EXCEPT ![s].completed_at = now]
    /\ UNCHANGED <<tours, routes, checkpoints, visited_points>>

\* lines 596-598
FinishWrite(s) ==
    /\ sessions' = [sessions EXCEPT ![s].completed_at = now,
                                    ![s].completion_type = "manual"]
    /\ UNCHANGED <<tours, routes, checkpoints, visited_points>>

\* the router maps the None of line 594 to HTTP 404, "No active session
\* for this route", whatever the reason no active session was found
FinishTour(u, tid) ==
    /\ UNCHANGED <<now, procs>>
    /\ IF First(ActiveSessionsOf(u, tid)) = NULL
       THEN /\ result' = Outcome("finish", u, tid, NULL, "NotFound", NULL, 594)
            /\ UNCHANGED db
       ELSE /\ FinishWrite(First(ActiveSessionsOf(u, tid)))
            /\ result' = Outcome("finish", u, tid, NULL, "ok",
                                 First(ActiveSessionsOf(u, tid)), 600)

\* --------------------------------------------------- get_tour_checkpoints
\* .order_by(Checkpoint.seq_no); uq_checkpoint_route_version_seq makes the
\* seq_no of a route's checkpoints distinct
OrderBySeqNo(S) ==
    [i \in 1..Cardinality(S) |->
        CHOOSE c \in S :
            Cardinality({d \in S : checkpoints[d].seq_no < checkpoints[c].seq_no})
                = i - 1]

\* faulty variant: the live version is listed whatever the session is locked to
CheckpointsRoute_Live(tid, u) == tours[tid].published_route_id

\* faulty variant: a completed session still selects its locked route
CheckpointsRoute_AnySession(tid, u) ==
    LET any == IF u = "null" THEN NULL ELSE First(SessionsOf(u, tid))
    IN  IF any # NULL THEN sessions[any].locked_route_id
        ELSE tours[tid].published_route_id

\* lines 338-347: the route whose checkpoints are listed
CheckpointsRoute(tid, u) ==
    LET active == IF u = "null" THEN NULL ELSE First(ActiveSessionsOf(u, tid))
    IN  IF active # NULL THEN sessions[active].locked_route_id
        ELSE tours[tid].published_route_id

\* lines 358-387: the defaults, overwritten from the user's VisitedPoint
CheckpointItem(c, u) ==
    IF u # "null" /\ <<u, c>> \in DOMAIN visited_points
    THEN [id |-> c, seq_no |-> checkpoints[c].seq_no,
          is_visible |-> checkpoints[c].is_visible,
          progress |-> visited_points[<<u, c>>]]
    ELSE [id |-> c, seq_no |-> checkpoints[c].seq_no,
          is_visible |-> checkpoints[c].is_visible,
          progress |-> [visited |-> FALSE, visited_at |-> NULL,
                        audio_status |-> "none", audio_started_at |-> NULL,
                        audio_completed_at |-> NULL]]

GetTourCheckpoints(tid, u) ==
    IF tid \notin DOMAIN tours \/ tours[tid].published_route_id = NULL
    THEN <<>>
    ELSE LET ordered == OrderBySeqNo(CheckpointsOf(CheckpointsRoute(tid, u)))
         IN  [i \in 1..Len(ordered) |-> CheckpointItem(ordered[i], u)]

\* ------------------------------------------- requests running concurrently
\* Each request runs in its own ORM session and transaction (READ COMMITTED):
\* every query is a step that sees the rows committed so far, and the flush
\* and commit that end the request are one step.
Free(p) == procs[p].pc \in {"idle", "done"}

Call(op, u, tid, arg, feat, pc, l) ==
    [Idle EXCEPT !.pc = pc, !.op = op, !.user = u, !.tour = tid, !.arg = arg,
                 !.feat = feat, !.l = l]

\* the request ends: its ORM session and the rows it loaded are discarded
Return(c, status, id, line) ==
    [c EXCEPT !.pc = "done", !.feat = <<>>, !.l = NoLoad,
              !.status = status, !.id = id, !.line = line]

\* publish_route, line 894
PublishBegin(p, tid, rid) ==
    /\ Free(p)
    /\ procs' = [procs EXCEPT ![p] =
          IF tid \notin DOMAIN tours
          THEN Return(Call("publish", "null", tid, rid, <<>>, "done", NoLoad),
                      "NotFound", NULL, 896)
          ELSE Call("publish", "null", tid, rid, <<>>, "pub_route",
                    LoadTour(NoLoad, tid))]
    /\ UNCHANGED <<db, now, result>>

\* line 898
PublishReadRoute(p) ==
    LET c == procs[p] IN
    /\ c.pc = "pub_route"
    /\ procs' = [procs EXCEPT ![p] =
          IF RouteMissing(c.tour, c.arg)
          THEN Return(c, "NotFound", NULL, 900)
          ELSE [c EXCEPT !.pc = "pub_old", !.l = LoadRoute(c.l, c.arg)]]
    /\ UNCHANGED <<db, now, result>>

\* lines 903-906
PublishReadOld(p) ==
    LET c == procs[p] IN
    /\ c.pc = "pub_old"
    /\ procs' = [procs EXCEPT ![p] =
          [c EXCEPT !.pc = "pub_commit", !.l = LoadOldRoute(c.l, c.arg)]]
    /\ UNCHANGED <<db, now, result>>

\* lines 907-924
PublishCommit(p) ==
    LET c == procs[p] IN
    /\ c.pc = "pub_commit"
    /\ PublishWrite(c.tour, c.arg, c.l)
    /\ procs' = [procs EXCEPT ![p] = Return(c, "ok", NULL, 924)]
    /\ UNCHANGED <<now, result>>

\* start_tour, line 559
StartBegin(p, u, tid) ==
    /\ Free(p)
    /\ procs' = [procs EXCEPT ![p] =
          IF ~StartableTour(tid)
          THEN Return(Call("start", u, tid, NULL, <<>>, "done", NoLoad),
                      "NotFound", NULL, 561)
          ELSE Call("start", u, tid, NULL, <<>>, "start_existing",
                    LoadTour(NoLoad, tid))]
    /\ UNCHANGED <<db, now, result>>

\* lines 564-571
StartReadExisting(p) ==
    LET c == procs[p] IN
    /\ c.pc = "start_existing"
    /\ procs' = [procs EXCEPT ![p] =
          IF ExistingSession(c.user, c.tour) # NULL
          THEN Return(c, "ok", ExistingSession(c.user, c.tour), 571)
          ELSE [c EXCEPT !.pc = "start_commit"]]
    /\ UNCHANGED <<db, now, result>>

\* lines 574-583; the INSERT of a second row for (user, tour) violates
\* uq_user_active_route and the IntegrityError leaves the handler
StartCommit(p) ==
    LET c == procs[p] IN
    /\ c.pc = "start_commit"
    /\ IF UniqueSessionOk(c.user, c.tour)
       THEN /\ StartWrite(c.user, c.tour, c.l.tour_pub)
            /\ procs' = [procs EXCEPT ![p] =
                            Return(c, "ok", Len(sessions) + 1, 583)]
       ELSE /\ procs' = [procs EXCEPT ![p] =
                            Return(c, "IntegrityError", NULL, 580)]
            /\ UNCHANGED db
    /\ UNCHANGED <<now, result>>

\* create_route, line 759
CreateRouteBegin(p, tid, feat) ==
    /\ Free(p)
    /\ procs' = [procs EXCEPT ![p] =
          IF tid \notin DOMAIN tours
          THEN Return(Call("create_route", "null", tid, NULL, feat, "done", NoLoad),
                      "NotFound", NULL, 761)
          ELSE Call("create_route", "null", tid, NULL, feat, "create_max", NoLoad)]
    /\ UNCHANGED <<db, now, result>>

\* lines 764-767
CreateRouteReadMax(p) ==
    LET c == procs[p] IN
    /\ c.pc = "create_max"
    /\ procs' = [procs EXCEPT ![p] =
          [c EXCEPT !.pc = "create_commit",
                    !.l = [c.l EXCEPT !.max_version = MaxVersionNo(c.tour)]]]
    /\ UNCHANGED <<db, now, result>>

\* lines 770-819; the INSERT of a version_no the tour already has violates
\* uq_route_version and the IntegrityError leaves the handler
CreateRouteCommit(p) ==
    LET c == procs[p] IN
    /\ c.pc = "create_commit"
    /\ Len(routes) < MaxRoutes \/ ~UniqueVersionOk(c.tour, c.l.max_version + 1)
    /\ IF UniqueVersionOk(c.tour, c.l.max_version + 1)
       THEN /\ CreateRouteWrite(c.tour, c.l.max_version, c.feat)
            /\ procs' = [procs EXCEPT ![p] =
                            Return(c, "ok", Len(routes) + 1, 819)]
       ELSE /\ procs' = [procs EXCEPT ![p] =
                            Return(c, "IntegrityError", NULL, 788)]
            /\ UNCHANGED db
    /\ UNCHANGED <<now, result>>

\* --------------------------------- progress requests running concurrently
\* lines 402-405 / 442-445: the user's row for the checkpoint, as committed
LoadVisitedPoint(l, u, cid) ==
    [l EXCEPT !.vp = IF <<u, cid>> \in DOMAIN visited_points
                     THEN visited_points[<<u, cid>>] ELSE NoRow]

\* the PRIMARY KEY (user_id, checkpoint_id) of visited_points
UniqueVisitedPointOk(u, cid) == <<u, cid>> \notin DOMAIN visited_points

\* lines 450-455: the UPDATE writes, by primary key, the columns the
\* handler assigned a value other than the loaded one
AudioRowUpdate(vp, k, new_status, loaded) ==
    [vp EXCEPT
       ![k].audio_status = IF new_status # loaded.audio_status
                           THEN new_status ELSE @,
       ![k].audio_started_at =
           IF new_status = "started" /\ loaded.audio_started_at = NULL
           THEN now ELSE @,
       ![k].audio_completed_at =
           IF new_status = "completed" /\ loaded.audio_completed_at = NULL
           THEN now ELSE @]

\* lines 410-414
VisitedRowUpdate(vp, k, loaded) ==
    IF ~loaded.visited
    THEN [vp EXCEPT ![k].visited = TRUE, ![k].visited_at = now]
    ELSE vp

\* update_audio_status, lines 437-447
AudioBegin(p, u, cid, new_status) ==
    /\ Free(p)
    /\ procs' = [procs EXCEPT ![p] =
          IF cid \notin CheckpointIds
          THEN Return(Call("audio_status", u, "null", cid, <<>>, "done", NoLoad),
                      "NotFound", NULL, 439)
          ELSE Call("audio_status", u, TourOfCheckpoint(cid), cid, <<>>,
                    "audio_commit",
                    [LoadVisitedPoint(NoLoad, u, cid)
                        EXCEPT !.new_status = new_status])]
    /\ UNCHANGED <<db, now, result>>

\* lines 449-468; the INSERT of a row another request inserted meanwhile
\* violates the primary key and the IntegrityError leaves the handler
AudioCommit(p) ==
    LET c == procs[p]
        k == <<c.user, c.arg>>
    IN  /\ c.pc = "audio_commit"
        /\ IF c.l.vp # NoRow
           THEN /\ visited_points' =
                      AudioRowUpdate(visited_points, k, c.l.new_status, c.l.vp)
                /\ procs' = [procs EXCEPT ![p].pc = "check_session"]
           ELSE IF UniqueVisitedPointOk(c.user, c.arg)
           THEN /\ visited_points' = UpdateAudioRow(visited_points, c.user,
                                                    c.arg, c.l.new_status)
                /\ procs' = [procs EXCEPT ![p].pc = "check_session"]
           ELSE /\ procs' = [procs EXCEPT ![p] =
                                Return(c, "IntegrityError", NULL, 468)]
                /\ UNCHANGED visited_points
        /\ UNCHANGED <<tours, routes, checkpoints, sessions, now, result>>

\* mark_checkpoint_visited, lines 397-405
MarkBegin(p, u, cid) ==
    /\ Free(p)
    /\ procs' = [procs EXCEPT ![p] =
          IF cid \notin CheckpointIds
          THEN Return(Call("mark_visited", u, "null", cid, <<>>, "done", NoLoad),
                      "NotFound", NULL, 399)
          ELSE Call("mark_visited", u, TourOfCheckpoint(cid), cid, <<>>,
                    "mark_commit", LoadVisitedPoint(NoLoad, u, cid))]
    /\ UNCHANGED <<db, now, result>>

\* lines 407-424
MarkCommit(p) ==
    LET c == procs[p]
        k == <<c.user, c.arg>>
    IN  /\ c.pc = "mark_commit"
        /\ IF c.l.vp # NoRow
           THEN /\ visited_points' = VisitedRowUpdate(visited_points, k, c.l.vp)
                /\ procs' = [procs EXCEPT ![p].pc = "check_session"]
           ELSE IF UniqueVisitedPointOk(c.user, c.arg)
           THEN /\ visited_points' = MarkVisitedRow(visited_points, c.user, c.arg)
                /\ procs' = [procs EXCEPT ![p].pc = "check_session"]
           ELSE /\ procs' = [procs EXCEPT ![p] =
                                Return(c, "IntegrityError", NULL, 424)]
                /\ UNCHANGED visited_points
        /\ UNCHANGED <<tours, routes, checkpoints, sessions, now, result>>

\* the line the handler returns from after the completion check
ProgressReturnLine(op) == IF op = "mark_visited" THEN 433 ELSE 477

\* _check_automatic_completion, lines 66-73; a request that ends records in
\* id the session the check completed, NULL when it completed none
CheckReadSession(p) ==
    LET c == procs[p]
        s == First(ActiveSessionsOf(c.user, c.tour))
    IN  /\ c.pc = "check_session"
        /\ procs' = [procs EXCEPT ![p] =
              IF s = NULL
              THEN Return(c, "ok", NULL, ProgressReturnLine(c.op))
              ELSE [c EXCEPT !.pc = "check_progress", !.l.session = s]]
        /\ UNCHANGED <<db, now, result>>

\* faulty variant: the counts see the request's own row only
CountedRows_Own(c) ==
    [k \in DOMAIN visited_points \cap {<<c.user, c.arg>>} |-> visited_points[k]]

\* lines 38-52: under READ COMMITTED the count queries see every row
\* committed before they run
CountedRows(c) == visited_points

\* line 76: the counts of _calculate_user_progress for the locked route
CheckReadProgress(p) ==
    LET c == procs[p]
        progress == CalculateUserProgress(CountedRows(c), c.user,
                        sessions[c.l.session].locked_route_id)
    IN  /\ c.pc = "check_progress"
        /\ procs' = [procs EXCEPT ![p] =
              [c EXCEPT !.pc = "check_commit",
                        !.l.checkpoints_total = progress.checkpoints_total,
                        !.l.audio_completed = progress.audio_completed]]
        /\ UNCHANGED <<db, now, result>>

\* lines 79-85: the UPDATE by primary key of the session loaded with
\* completed_at and completion_type empty
CheckCommit(p) ==
    LET c == procs[p] IN
    /\ c.pc = "check_commit"
    /\ IF CompletionCondition(c.l)
       THEN /\ sessions' = [sessions EXCEPT
                  ![c.l.session].completed_at = now,
                  ![c.l.session].completion_type = "automatic"]
            /\ procs' = [procs EXCEPT ![p] =
                  Return(c, "ok", c.l.session, ProgressReturnLine(c.op))]
       ELSE /\ procs' = [procs EXCEPT ![p] =
                  Return(c, "ok", NULL, ProgressReturnLine(c.op))]
            /\ UNCHANGED sessions
    /\ UNCHANGED <<tours, routes, checkpoints, visited_points, now, result>>

\* finish_tour, lines 587-594
FinishBegin(p, u, tid) ==
    /\ Free(p)
    /\ procs' = [procs EXCEPT ![p] =
          IF First(ActiveSessionsOf(u, tid)) = NULL
          THEN Return(Call("finish", u, tid, NULL, <<>>, "done", NoLoad),
                      "NotFound", NULL, 594)
          ELSE Call("finish", u, tid, NULL, <<>>, "finish_commit",
                    [NoLoad EXCEPT !.session = First(ActiveSessionsOf(u, tid))])]
    /\ UNCHANGED <<db, now, result>>

\* lines 596-600
FinishCommit(p) ==
    LET c == procs[p] IN
    /\ c.pc = "finish_commit"
    /\ FinishWrite(c.l.session)
    /\ procs' = [procs EXCEPT ![p] = Return(c, "ok", c.l.session, 600)]
    /\ UNCHANGED <<now, result>>

\* ------------------------------------------------------- specifications
\* editor requests, served one at a time
NextContent ==
    \/ Tick
    \/ \E tid \in TourIds, st \in TourStatusInputs : CreateTour(tid, st)
    \/ \E tid \in TourIds, feat \in FeatureInputs : CreateRoute(tid, feat)
    \/ \E tid \in TourIds, rid \in 1..MaxRoutes : PublishRoute(tid, rid)

SpecContent == Init /\ [][NextContent]_vars

\* editor requests with update_tour among them, within one clock reading
NextEditor ==
    \/ \E tid \in TourIds, st \in TourStatusInputs : CreateTour(tid, st)
    \/ \E tid \in TourIds, st \in TourStatus : UpdateTour(tid, st)
    \/ \E tid \in TourIds, feat \in FeatureInputs : CreateRoute(tid, feat)
    \/ \E tid \in TourIds, rid \in 1..MaxRoutes : PublishRoute(tid, rid)

SpecEditor == Init /\ [][NextEditor]_vars

\* A user walking tour t1 while its editor publishes, all within one clock
\* reading.  The store holds what
\* create_tour("t1") followed by two create_route calls leave: two draft
\* versions with the checkpoints of one of the payload pairs in content.
SessionStore(content) ==
    /\ tours = ("t1" :> [status |-> "draft", published_route_id |-> NULL])
    /\ routes = << [tour_id |-> "t1", version_no |-> 1,
                    status |-> "draft", published_at |-> NULL],
                   [tour_id |-> "t1", version_no |-> 2,
                    status |-> "draft", published_at |-> NULL] >>
    /\ \E c \in content :
          checkpoints = NewCheckpoints(1, c[1]) \o NewCheckpoints(2, c[2])
    /\ sessions = <<>>
    /\ visited_points = <<>>
    /\ now = 0
    /\ result = NoResult
    /\ procs = [p \in Procs |-> Idle]

SessionContent ==
    { << <<TRUE>>, <<TRUE, TRUE>> >>,
      << <<TRUE, FALSE>>, <<TRUE>> >>,
      << <<FALSE>>, <<TRUE>> >>,
      << <<TRUE, TRUE>>, <<TRUE>> >> }

InitSession == SessionStore(SessionContent)

NextSession ==
    \/ \E tid \in DOMAIN tours, rid \in RouteIds : PublishRoute(tid, rid)
    \/ \E u \in Users, tid \in DOMAIN tours : StartTour(u, tid)
    \/ \E u \in Users, tid \in DOMAIN tours : FinishTour(u, tid)
    \/ \E u \in Users, cid \in CheckpointIds, st \in AudioListenStatus :
          UpdateAudioStatus(u, cid, st)

SpecSession == InitSession /\ [][NextSession]_vars

\* The same requests with the clock running and GPS arrivals, on a tour
\* whose versions have few checkpoints.
TimedContent ==
    { << <<TRUE>>, <<>> >>,
      << <<FALSE>>, <<>> >> }

InitTimed == SessionStore(TimedContent)

NextTimed ==
    \/ Tick
    \/ NextSession
    \/ \E u \in Users, cid \in CheckpointIds : MarkCheckpointVisited(u, cid)

SpecTimed == InitTimed /\ [][NextTimed]_vars

\* Two request handlers at a time, on a tour whose first version is live:
\* the store is what create_tour("t1"), create_route(s) and publish_route
\* leave, with drafts further draft versions.
ConcStore(drafts) ==
    /\ tours = ("t1" :> [status |-> "published", published_route_id |-> 1])
    /\ routes = << [tour_id |-> "t1", version_no |-> 1,
                    status |-> "published", published_at |-> 0] >>
                 \o [i \in 1..drafts |->
                       [tour_id |-> "t1", version_no |-> i + 1,
                        status |-> "draft", published_at |-> NULL]]
    /\ checkpoints = NewCheckpoints(1, <<TRUE>>)
    /\ sessions = <<>>
    /\ visited_points = <<>>
    /\ now = 0
    /\ result = NoResult
    /\ procs = [p \in Procs |-> Idle]

\* concurrent create_route requests
InitConcCreate == ConcStore(0)

NextConcCreate ==
    \/ \E p \in Procs, tid \in TourIds, feat \in FeatureInputs :
          CreateRouteBegin(p, tid, feat)
    \/ \E p \in Procs : CreateRouteReadMax(p)
    \/ \E p \in Procs : CreateRouteCommit(p)

SpecConcCreate == InitConcCreate /\ [][NextConcCreate]_vars

\* concurrent publish_route and start_tour requests
InitConc == ConcStore(2)

NextConc ==
    \/ \E p \in Procs, tid \in TourIds, rid \in RouteIds :
          PublishBegin(p, tid, rid)
    \/ \E p \in Procs : PublishReadRoute(p)
    \/ \E p \in Procs : PublishReadOld(p)
    \/ \E p \in Procs : PublishCommit(p)
    \/ \E p \in Procs, u \in Users, tid \in TourIds : StartBegin(p, u, tid)
    \/ \E p \in Procs : StartReadExisting(p)
    \/ \E p \in Procs : StartCommit(p)

SpecConc == InitConc /\ [][NextConc]_vars

\* The editor of t1 publishing its versions and editing their checkpoints.
ReviseContent == { << <<TRUE, FALSE>>, <<TRUE>> >> }

InitRevise == SessionStore(ReviseContent)

NextRevise ==
    \/ \E tid \in DOMAIN tours, rid \in RouteIds : PublishRoute(tid, rid)
    \/ \E cid \in 1..(Len(checkpoints) + 1), data \in CheckpointUpdates :
          UpdateCheckpoint(cid, data)

SpecRevise == InitRevise /\ [][NextRevise]_vars

\* A user with an active session on the published route 1 of t1, which has
\* two visible checkpoints: the store create_tour, create_route,
\* publish_route and start_tour leave.  Two of the user's finish_tour,
\* mark_checkpoint_visited and update_audio_status requests run at a time.
InitConcProgress ==
    /\ tours = ("t1" :> [status |-> "published", published_route_id |-> 1])
    /\ routes = << [tour_id |-> "t1", version_no |-> 1,
                    status |-> "published", published_at |-> 0] >>
    /\ checkpoints = NewCheckpoints(1, <<TRUE, TRUE>>)
    /\ sessions = << [user_id |-> "u1", tour_id |-> "t1", locked_route_id |-> 1,
                      started_at |-> 0, completed_at |-> NULL,
                      completion_type |-> NoType] >>
    /\ visited_points = <<>>
    /\ now = 0
    /\ result = NoResult
    /\ procs = [p \in Procs |-> Idle]

\* the statuses the concurrent update_audio_status requests send
ProgressAudioInputs == {"started", "completed"}

NextConcProgress ==
    \/ \E p \in Procs, u \in Users, cid \in CheckpointIds,
          st \in ProgressAudioInputs : AudioBegin(p, u, cid, st)
    \/ \E p \in Procs : AudioCommit(p)
    \/ \E p \in Procs, u \in Users, cid \in CheckpointIds : MarkBegin(p, u, cid)
    \/ \E p \in Procs : MarkCommit(p)
    \/ \E p \in Procs : CheckReadSession(p)
    \/ \E p \in Procs : CheckReadProgress(p)
    \/ \E p \in Procs : CheckCommit(p)
    \/ \E p \in Procs, u \in Users, tid \in DOMAIN tours : FinishBegin(p, u, tid)
    \/ \E p \in Procs : FinishCommit(p)

SpecConcProgress == InitConcProgress /\ [][NextConcProgress]_vars

\* The same user sending update_audio_status(completed) for the two
\* checkpoints, two requests at a time.
NextConcAudio ==
    \/ \E p \in Procs, u \in Users, cid \in CheckpointIds :
          AudioBegin(p, u, cid, "completed")
    \/ \E p \in Procs : AudioCommit(p)
    \/ \E p \in Procs : CheckReadSession(p)
    \/ \E p \in Procs : CheckReadProgress(p)
    \/ \E p \in Procs : CheckCommit(p)

SpecConcAudio == InitConcProgress /\ [][NextConcAudio]_vars

\* ================================================================ claims
\* a request served one at a time has just returned
Served(op) == result'.op = op /\ <<db, result>>' # <<db, result>>

PublishedRoutesOf(tid) == {r \in RoutesOf(tid) : routes[r].status = "published"}

\* C1: after any sequence of create_route and publish_route requests served
\* one at a time, every tour has at most one route with status published.
C1_AtMostOnePublished ==
    \A tid \in DOMAIN tours : Cardinality(PublishedRoutesOf(tid)) <= 1

\* a tour with a superseded and a published version: two publishes happened
C1_Witness ==
    \E tid \in DOMAIN tours :
        /\ result.op = "publish" /\ result.status = "ok" /\ result.tour = tid
        /\ Cardinality(PublishedRoutesOf(tid)) = 1
        /\ \E r \in RoutesOf(tid) : routes[r].status = "superseded"

\* C2: two publish_route requests for the same tour, their queries and
\* commits interleaved, never commit a state in which the tour, having a
\* published version, has zero or two routes with status published.
C2_ExactlyOnePublished ==
    \A tid \in DOMAIN tours :
        tours[tid].published_route_id # NULL
            => Cardinality(PublishedRoutesOf(tid)) = 1

\* C3: once a session exists for (user, tour), every later start_tour for
\* that pair returns that session's id, and no request, publish_route
\* included, changes the session's locked_route_id; the start that creates
\* the session returns the new row's id.
C3_StartIdempotent ==
    [][ /\ \A s \in SessionIds :
            /\ s \in 1..Len(sessions')
            /\ sessions'[s].locked_route_id = sessions[s].locked_route_id
            /\ (/\ Served("start")
                /\ result'.user = sessions[s].user_id
                /\ result'.tour = sessions[s].tour_id)
               => (result'.status = "ok" /\ result'.id = s)
        /\ Len(sessions') > Len(sessions)
            => (result'.op = "start" /\ result'.id = Len(sessions')) ]_vars

\* a second start after the tour was republished
C3_Witness ==
    /\ result.op = "start" /\ result.status = "ok" /\ result.line = 571
    /\ result.id \in SessionIds
    /\ sessions[result.id].locked_route_id
          # tours[result.tour].published_route_id

\* C4: two start_tour requests for one (user, tour) that both ran the
\* existence check before either inserted both return a session, with the
\* same id, and the pair has exactly one row.
C4_ConcurrentStartSameId ==
    \A p, q \in Procs :
        (/\ p # q
         /\ procs[p].pc = "done" /\ procs[p].op = "start"
         /\ procs[q].pc = "done" /\ procs[q].op = "start"
         /\ procs[p].user = procs[q].user /\ procs[p].tour = procs[q].tour
         /\ procs[p].line # 561 /\ procs[q].line # 561)
        => /\ procs[p].status = "ok" /\ procs[q].status = "ok"
           /\ procs[p].id = procs[q].id
           /\ Cardinality(SessionsOf(procs[p].user, procs[p].tour)) = 1

\* C5: a publish_route leaves every session's locked_route_id unchanged and,
\* for a session that is still active, the list get_tour_checkpoints
\* returns for its user and tour.
C5_PublishKeepsSession ==
    [][ Served("publish") =>
          \A s \in SessionIds :
            /\ s \in 1..Len(sessions')
            /\ sessions'[s].locked_route_id = sessions[s].locked_route_id
            /\ sessions[s].completed_at = NULL
                => GetTourCheckpoints(sessions[s].tour_id, sessions[s].user_id)'
                     = GetTourCheckpoints(sessions[s].tour_id, sessions[s].user_id)
      ]_vars

\* an active session whose list differs from the live version's list,
\* right after a publish
C5_Witness ==
    /\ result.op = "publish" /\ result.status = "ok"
    /\ \E s \in SessionIds :
        /\ sessions[s].tour_id = result.tour
        /\ sessions[s].completed_at = NULL
        /\ sessions[s].locked_route_id # result.arg
        /\ tours[result.tour].published_route_id = result.arg
        /\ GetTourCheckpoints(result.tour, sessions[s].user_id) # <<>>
        /\ GetTourCheckpoints(result.tour, sessions[s].user_id)
              # GetTourCheckpoints(result.tour, "null")

VisibleCheckpointsOf(rid) ==
    {c \in CheckpointsOf(rid) : checkpoints[c].is_visible}

AllVisibleCompleted(vp, u, rid) ==
    \A c \in VisibleCheckpointsOf(rid) :
        <<u, c>> \in DOMAIN vp /\ vp[<<u, c>>].audio_status = "completed"

\* C6: when an update_audio_status of a user with an active session leaves
\* every visible checkpoint of the locked route (there is at least one)
\* completed, the session gets completed_at and completion_type automatic;
\* a finish_tour on a session completed automatically fails with
\* AlreadyCompleted.
C6_AutomaticThenAlreadyCompleted ==
    [][ \A s \in SessionIds :
          /\ (/\ Served("audio_status")
              /\ result'.user = sessions[s].user_id
              /\ sessions[s].completed_at = NULL
              /\ VisibleCheckpointsOf(sessions[s].locked_route_id) # {}
              /\ AllVisibleCompleted(visited_points', sessions[s].user_id,
                                     sessions[s].locked_route_id))
             => (/\ sessions'[s].completed_at # NULL
                 /\ sessions'[s].completion_type = "automatic")
          /\ (/\ Served("finish")
              /\ result'.user = sessions[s].user_id
              /\ result'.tour = sessions[s].tour_id
              /\ sessions[s].completion_type = "automatic")
             => result'.status = "AlreadyCompleted" ]_vars

\* C7: finish_tour on a completed session returns AlreadyCompleted, which is
\* not the NotFound of a missing session, and changes no session.
C7_FinishAlreadyCompleted ==
    [][ \A s \in SessionIds :
          (/\ Served("finish")
           /\ result'.user = sessions[s].user_id
           /\ result'.tour = sessions[s].tour_id
           /\ sessions[s].completed_at # NULL)
          => (/\ result'.status = "AlreadyCompleted"
              /\ result'.status # "NotFound"
              /\ sessions' = sessions) ]_vars

\* the user's VisitedPoint rows, on any checkpoint
ProgressRows(u) == {k \in DOMAIN visited_points : k[1] = u}

\* C8: finish_tour on an active session of a user without progress rows sets
\* completion_type manual and completed_at now, and no later
\* mark_checkpoint_visited or update_audio_status writes to a session
\* completed manually.
C8_ManualStays ==
    [][ \A s \in SessionIds :
          /\ (/\ Served("finish")
              /\ result'.user = sessions[s].user_id
              /\ result'.tour = sessions[s].tour_id
              /\ sessions[s].completed_at = NULL
              /\ ProgressRows(sessions[s].user_id) = {})
             => (/\ result'.status = "ok"
                 /\ sessions'[s].completion_type = "manual"
                 /\ sessions'[s].completed_at = now)
          /\ (/\ Served("mark_visited") \/ Served("audio_status")
              /\ sessions[s].completion_type = "manual")
             => sessions'[s] = sessions[s] ]_vars

\* a late progress event completed every visible checkpoint of a session
\* finished by hand at an earlier time
C8_Witness ==
    /\ result.op = "audio_status"
    /\ \E s \in SessionIds :
        /\ sessions[s].completion_type = "manual"
        /\ sessions[s].completed_at < now
        /\ result.user = sessions[s].user_id
        /\ CompletionCondition(CalculateUserProgress(visited_points,
              sessions[s].user_id, sessions[s].locked_route_id))

\* C9: under any interleaving of concurrent create_route requests, the
\* version_no values of a tour's routes are exactly 1..n, n the number of
\* its routes.
C9_VersionNosContiguous ==
    \A tid \in DOMAIN tours :
        /\ {routes[r].version_no : r \in RoutesOf(tid)}
              = 1..Cardinality(RoutesOf(tid))
        /\ \A r1, r2 \in RoutesOf(tid) :
              routes[r1].version_no = routes[r2].version_no => r1 = r2

\* two requests read the same max; one inserted, the other was rejected
C9_Witness ==
    \E p, q \in Procs :
        /\ procs[p].op = "create_route" /\ procs[p].status = "IntegrityError"
        /\ procs[q].op = "create_route" /\ procs[q].status = "ok"
        /\ procs[p].tour = procs[q].tour
        /\ Cardinality(RoutesOf(procs[p].tour)) >= 2

\* C10: publishing route N2 of a tour while another route N1 of the tour is
\* published leaves N1 superseded with the published_at it had.
C10_SupersededKeepsPublishedAt ==
    [][ \A n1 \in RouteIds :
          (/\ Served("publish") /\ result'.status = "ok"
           /\ routes[n1].tour_id = result'.tour
           /\ routes[n1].status = "published"
           /\ result'.arg # n1)
          => (/\ routes'[n1].status = "superseded"
              /\ routes'[n1].published_at = routes[n1].published_at) ]_vars

\* N2 was published at a later time than N1
C10_Witness ==
    /\ result.op = "publish" /\ result.status = "ok"
    /\ \E n1 \in RoutesOf(result.tour) :
        /\ n1 # result.arg
        /\ routes[n1].status = "superseded"
        /\ routes[n1].published_at # NULL
        /\ routes[n1].published_at < routes[result.arg].published_at

\* C11: a start_tour for a (user, tour) pair without a session, on a tour
\* whose published_route_id is set, appends one session for the pair with
\* locked_route_id the tour's published_route_id at that moment and
\* completed_at null, and returns it.
C11_StartLocksPublished ==
    [][ (/\ Served("start")
         /\ result'.tour \in DOMAIN tours
         /\ tours[result'.tour].published_route_id # NULL
         /\ SessionsOf(result'.user, result'.tour) = {})
        => (/\ result'.status = "ok"
            /\ Len(sessions') = Len(sessions) + 1
            /\ result'.id = Len(sessions')
            /\ sessions'[Len(sessions')].user_id = result'.user
            /\ sessions'[Len(sessions')].tour_id = result'.tour
            /\ sessions'[Len(sessions')].locked_route_id
                  = tours[result'.tour].published_route_id
            /\ sessions'[Len(sessions')].completed_at = NULL
            /\ \A s \in SessionIds : sessions'[s] = sessions[s]) ]_vars

\* a session just created on a tour whose published route is not its newest
C11_Witness ==
    /\ result.op = "start" /\ result.status = "ok" /\ result.line = 583
    /\ result.id = Len(sessions)
    /\ sessions[result.id].locked_route_id = tours[result.tour].published_route_id
    /\ sessions[result.id].locked_route_id # SetMax(RoutesOf(result.tour))

\* C12: a start_tour on a tour whose published_route_id is null fails with
\* the outcome of line 561 (HTTP 404, "Route not found or not published")
\* and leaves the sessions table as it was.
C12_StartUnpublishedFails ==
    [][ (/\ Served("start")
         /\ result'.tour \in DOMAIN tours
         /\ tours[result'.tour].published_route_id = NULL)
        => (/\ result'.status = "NotFound" /\ result'.line = 561
            /\ result'.id = NULL
            /\ sessions' = sessions) ]_vars

\* a start refused on an existing tour that has draft routes only
C12_Witness ==
    /\ result.op = "start" /\ result.status = "NotFound"
    /\ result.tour \in DOMAIN tours
    /\ tours[result.tour].published_route_id = NULL
    /\ RoutesOf(result.tour) # {}
    /\ sessions = <<>>

\* the list holds each checkpoint of route rid once, by ascending seq_no
ListsRoute(list, rid) ==
    /\ Len(list) = Cardinality(CheckpointsOf(rid))
    /\ {list[i].id : i \in 1..Len(list)} = CheckpointsOf(rid)
    /\ \A i \in 1..Len(list) : list[i].seq_no = checkpoints[list[i].id].seq_no
    /\ \A i, j \in 1..Len(list) : i < j => list[i].seq_no < list[j].seq_no

\* C13: get_tour_checkpoints lists, by ascending seq_no, the checkpoints of
\* the session's locked route when the user has a session for the tour with
\* completed_at null, and the checkpoints of the tour's published route in
\* every other case: no user, no session, a completed session.
C13_CheckpointsOfLockedOrPublished ==
    \A tid \in DOMAIN tours : \A u \in Users \cup {"null"} :
        LET active == IF u = "null" THEN {} ELSE ActiveSessionsOf(u, tid)
            list == GetTourCheckpoints(tid, u)
        IN  IF active # {}
            THEN \A s \in active : ListsRoute(list, sessions[s].locked_route_id)
            ELSE IF tours[tid].published_route_id # NULL
            THEN ListsRoute(list, tours[tid].published_route_id)
            ELSE list = <<>>

\* a user whose completed session is locked to a route other than the
\* published one is shown the published route's two checkpoints
C13_Witness ==
    \E s \in SessionIds :
        /\ sessions[s].completed_at # NULL
        /\ sessions[s].locked_route_id # tours[sessions[s].tour_id].published_route_id
        /\ Len(GetTourCheckpoints(sessions[s].tour_id, sessions[s].user_id)) = 2
        /\ Cardinality(CheckpointsOf(sessions[s].locked_route_id)) = 1
        /\ GetTourCheckpoints(sessions[s].tour_id, sessions[s].user_id)[1].id
              \in CheckpointsOf(tours[sessions[s].tour_id].published_route_id)

\* C14: a mark_checkpoint_visited on an existing checkpoint succeeds and
\* leaves the row visited; visited_at is written when the row was not
\* visited before and keeps that value through every later request.
C14_VisitedAtWrittenOnce ==
    [][ /\ \A k \in DOMAIN visited_points :
              visited_points[k].visited =>
                  /\ k \in DOMAIN visited_points'
                  /\ visited_points'[k].visited
                  /\ visited_points'[k].visited_at = visited_points[k].visited_at
        /\ (Served("mark_visited") /\ result'.arg \in CheckpointIds) =>
              LET k == <<result'.user, result'.arg>> IN
              /\ result'.status = "ok"
              /\ k \in DOMAIN visited_points'
              /\ visited_points'[k].visited
              /\ (k \notin DOMAIN visited_points \/ ~visited_points[k].visited)
                    => visited_points'[k].visited_at = now
              /\ \A j \in DOMAIN visited_points' \ {k} :
                    j \in DOMAIN visited_points
                        /\ visited_points'[j] = visited_points[j] ]_vars

\* a checkpoint marked again at a later time than its first visit
C14_Witness ==
    /\ result.op = "mark_visited" /\ result.status = "ok"
    /\ <<result.user, result.arg>> \in DOMAIN visited_points
    /\ visited_points[<<result.user, result.arg>>].visited
    /\ visited_points[<<result.user, result.arg>>].visited_at < now

\* the value of a timestamp column of the row with key k, null without a row
StampOf(vp, k, column) == IF k \in DOMAIN vp THEN vp[k][column] ELSE NULL

C16_NoVisibleCheckpointsZeroPercent ==
    \A rid \in RouteIds : \A u \in Users :
        VisibleCheckpointsOf(rid) = {} =>
            /\ CalculateUserProgress(visited_points, u, rid).checkpoints_total = 0
            /\ CalculateUserProgress(visited_points, u, rid).progress_percent = 0

\* the user completed the audio of a hidden checkpoint of a route that has
\* no visible one
C16_Witness ==
    \E rid \in RouteIds : \E u \in Users :
        /\ CheckpointsOf(rid) # {}
        /\ VisibleCheckpointsOf(rid) = {}
        /\ CalculateUserProgress(visited_points, u, rid).audio_completed >= 1
        /\ CalculateUserProgress(visited_points, u, rid).checkpoints_total = 0

\* C17: a publish_route returns NotFound when the tour does not exist, the
\* route does not exist, or the route belongs to another tour, and then
\* changes no tour, route, checkpoint, session or progress row.
C17_PublishNotFoundNoChange ==
    [][ (/\ Served("publish")
         /\ \/ result'.tour \notin DOMAIN tours
            \/ result'.arg \notin RouteIds
            \/ routes[result'.arg].tour_id # result'.tour)
        => (result'.status = "NotFound" /\ db' = db) ]_vars

\* a publish of another tour's route was refused while both tours exist and
\* the route's own tour has a published route
C17_Witness ==
    /\ result.op = "publish" /\ result.status = "NotFound" /\ result.line = 900
    /\ result.tour \in DOMAIN tours
    /\ result.arg \in RouteIds
    /\ routes[result.arg].tour_id # result.tour
    /\ tours[routes[result.arg].tour_id].published_route_id # NULL

\* C18: in every state reached by create_tour, update_tour, create_route
\* and publish_route requests, a tour's published_route_id is set only
\* while the tour's status is published, and the route it names has status
\* published.
C18_PublishedRouteOnlyWhilePublished ==
    \A tid \in DOMAIN tours :
        tours[tid].published_route_id # NULL =>
            /\ tours[tid].status = "published"
            /\ tours[tid].published_route_id \in RouteIds
            /\ routes[tours[tid].published_route_id].status = "published"

\* the order draft < review < published < superseded
StatusRank(status) ==
    CASE status = "draft" -> 0
      [] status = "review" -> 1
      [] status = "published" -> 2
      [] status = "superseded" -> 3

\* C19: no request moves a route to an earlier status in the order
\* draft < review < published < superseded, whatever route of the tour a
\* publish_route names and whatever that route's status is.
C19_RouteStatusNeverDecreases ==
    [][ \A r \in RouteIds :
          StatusRank(routes'[r].status) >= StatusRank(routes[r].status) ]_vars

\* C20: a publish_route of a route whose published_at is already set leaves
\* that published_at as it was.
C20_PublishedAtNotRestamped ==
    [][ (/\ Served("publish") /\ result'.status = "ok"
         /\ routes[result'.arg].published_at # NULL)
        => routes'[result'.arg].published_at
              = routes[result'.arg].published_at ]_vars

\* C21: under any interleaving of a finish_tour and the user's progress
\* requests on the tour, a session's completion_type, once manual or
\* automatic, is not changed by any later or concurrent request.
C21_CompletionTypeWrittenOnce ==
    [][ \A s \in SessionIds :
          sessions[s].completion_type # NoType
              => sessions'[s].completion_type = sessions[s].completion_type
      ]_vars

\* C22: of two progress requests of one user that evaluate the completion
\* of the same session concurrently, each finding the condition true, one
\* writes completed_at and completion_type and the other writes nothing to
\* the session.
C22_OneCompletionWrite ==
    \A p, q \in Procs :
        (/\ p # q
         /\ procs[p].pc = "done" /\ procs[q].pc = "done"
         /\ procs[p].op \in {"mark_visited", "audio_status"}
         /\ procs[q].op \in {"mark_visited", "audio_status"}
         /\ procs[p].id # NULL)
        => procs[q].id # procs[p].id

\* C23: over every sequence of requests, a session's completed_at, once
\* set, is never set back to null and never replaced by an earlier time.
C23_CompletedAtMonotonic ==
    [][ \A s \in SessionIds :
          sessions[s].completed_at # NULL =>
              /\ s \in 1..Len(sessions')
              /\ sessions'[s].completed_at # NULL
              /\ sessions'[s].completed_at >= sessions[s].completed_at ]_vars

\* a session completed automatically at an earlier time, and a visit of its
\* user served since, after the audio status went back to none
C23_Witness ==
    /\ result.op = "mark_visited" /\ result.status = "ok"
    /\ \E s \in SessionIds :
        /\ sessions[s].user_id = result.user
        /\ sessions[s].completion_type = "automatic"
        /\ sessions[s].completed_at < now
        /\ ~CompletionCondition(CalculateUserProgress(visited_points,
              sessions[s].user_id, sessions[s].locked_route_id))

\* C24: no request changes a checkpoint (visibility, sequence number) of a
\* route whose status is published or superseded.
C24_PublishedCheckpointsImmutable ==
    [][ \A c \in CheckpointIds :
          routes[checkpoints[c].route_id].status \in {"published", "superseded"}
              => checkpoints'[c] = checkpoints[c] ]_vars

\* C25: after a successful publish_route(tour, route) the tour's
\* published_route_id is that route and the route's status is published;
\* a tour that was draft or coming_soon has status published.
C25_PublishSetsTourAndRoute ==
    [][ (Served("publish") /\ result'.status = "ok") =>
          /\ tours'[result'.tour].published_route_id = result'.arg
          /\ routes'[result'.arg].status = "published"
          /\ tours[result'.tour].status \in {"draft", "coming_soon"}
                => tours'[result'.tour].status = "published" ]_vars

\* the first route of a tour published again after its second one had
\* been published
C25_Witness ==
    /\ result.op = "publish" /\ result.status = "ok"
    /\ tours[result.tour].published_route_id = result.arg
    /\ tours[result.tour].status = "published"
    /\ routes[result.arg].status = "published"
    /\ routes[result.arg].version_no = 1
    /\ \E r \in RoutesOf(result.tour) :
          routes[r].version_no = 2 /\ routes[r].status = "superseded"

\* C26: a session becomes completed with completion_type automatic only in
\* a state where every visible checkpoint of its locked route has audio
\* status completed for its user; completed audio on hidden checkpoints
\* does not count.
C26_AutomaticOnlyWhenAllVisibleCompleted ==
    [][ \A s \in SessionIds :
          (/\ sessions[s].completion_type # "automatic"
           /\ sessions'[s].completion_type = "automatic")
          => AllVisibleCompleted(visited_points', sessions[s].user_id,
                                 sessions[s].locked_route_id) ]_vars

\* C27: whenever no request is in progress, no session with completed_at
\* null has a locked route with checkpoints_total > 0 and audio_completed >=
\* checkpoints_total, in every order of start_tour and progress requests,
\* progress recorded before the start included.
C27_NoActiveSessionWithConditionTrue ==
    \A s \in SessionIds :
        sessions[s].completed_at = NULL =>
            ~CompletionCondition(CalculateUserProgress(visited_points,
                sessions[s].user_id, sessions[s].locked_route_id))

\* C28: when two update_audio_status(completed) requests for the two
\* visible checkpoints an active session still lacks have run, in any
\* interleaving of their commits and completion checks, and both have
\* returned, the session is completed with completion_type automatic.
C28_CompletionNotLost ==
    \A p, q \in Procs :
        (/\ procs[p].pc = "done" /\ procs[q].pc = "done"
         /\ procs[p].op = "audio_status" /\ procs[q].op = "audio_status"
         /\ procs[p].status = "ok" /\ procs[q].status = "ok"
         /\ procs[p].user = procs[q].user
         /\ procs[p].arg # procs[q].arg)
        => \A s \in SessionsOf(procs[p].user, procs[p].tour) :
              /\ sessions[s].completed_at # NULL
              /\ sessions[s].completion_type = "automatic"

\* the two requests ran their completion checks side by side: each found
\* the session active and both rows committed
C28_Witness ==
    \E p, q \in Procs :
        /\ procs[p].pc = "done" /\ procs[q].pc = "done"
        /\ procs[p].op = "audio_status" /\ procs[q].op = "audio_status"
        /\ procs[p].arg # procs[q].arg
        /\ procs[p].id # NULL /\ procs[q].id = procs[p].id
        /\ sessions[procs[p].id].completion_type = "automatic"

\* C29: in every reachable state, a session's completed_at is null if and
\* only if its completion_type is null.
C29_CompletedAtIffCompletionType ==
    \A s \in SessionIds :
        sessions[s].completed_at = NULL <=> sessions[s].completion_type = NoType

\* a session finished by hand at a later time than it was started
C29_Witness ==
    /\ result.op = "finish" /\ result.status = "ok"
    /\ result.id \in SessionIds
    /\ sessions[result.id].completion_type = "manual"
    /\ sessions[result.id].completed_at = now
    /\ sessions[result.id].started_at < now

\* C30: in every reachable state of every VisitedPoint row, visited is true
\* if and only if visited_at is set, audio_status started implies
\* audio_started_at is set, and audio_status completed implies
\* audio_completed_at is set.
C30_ProgressRowConsistent ==
    \A k \in DOMAIN visited_points :
        LET row == visited_points[k]
        IN  /\ row.visited <=> row.visited_at # NULL
            /\ row.audio_status = "started" => row.audio_started_at # NULL
            /\ row.audio_status = "completed" => row.audio_completed_at # NULL

\* a row created by a completed audio event, visited later, its status then
\* taken back to none: both timestamps are set, audio_started_at never was
C30_Witness ==
    \E k \in DOMAIN visited_points :
        LET row == visited_points[k]
        IN  /\ row.visited /\ row.visited_at > row.audio_completed_at
            /\ row.audio_completed_at # NULL
            /\ row.audio_started_at = NULL
            /\ row.audio_status = "none"

====
